---- MODULE Spec2Model ----
(***************************************************************************)
(* A model of the Stochastic Ruler random search of StochasticRuler.py:    *)
(* the class stochastic_ruler, its constructor, the index built by         *)
(* help_neigh_struct, the neighbour pick, the budget Mf and the main loop  *)
(* SR_Algo with the evaluator wrapper run.                                 *)
(*                                                                         *)
(* Costs are fixed-point: the integer n stands for the float n / Scale, so *)
(* Scale is the cost 1.0.  np.random.uniform(0,1) draws from [0,1), the    *)
(* integers 0..Scale-1; the evaluator returns 1-acc in [0,1], 0..Scale.    *)
(***************************************************************************)
EXTENDS Integers, Sequences, FiniteSets, TLC

\* ---------------------------------------------------------------- bounds
Scale == 2
MaxEvals == 15

\* --------------------------------------------------------------- values
\* A Python value of a space: an int or a str.
IntV(n) == [tag |-> "int", n |-> n, s |-> ""]
StrV(s) == [tag |-> "str", n |-> 0, s |-> s]

Digit(d) ==
  CASE d = 0 -> "0" [] d = 1 -> "1" [] d = 2 -> "2" [] d = 3 -> "3"
    [] d = 4 -> "4" [] d = 5 -> "5" [] d = 6 -> "6" [] d = 7 -> "7"
    [] d = 8 -> "8" [] d = 9 -> "9"

RECURSIVE IntToStr(_)
IntToStr(n) ==
  IF n < 0 THEN "-" \o IntToStr(0 - n)
  ELSE IF n < 10 THEN Digit(n)
  ELSE IntToStr(n \div 10) \o Digit(n % 10)

\* str(l) of line 47 and line 63
Str(v) == IF v.tag = "int" THEN IntToStr(v.n) ELSE v.s

\* ---------------------------------------------------------------- spaces
\* A space is a Python dict in insertion order: a sequence of dimensions.
Dim(name, vals) == [name |-> name, vals |-> vals]

SpaceLine == <<Dim("x", <<IntV(1), IntV(2), IntV(3)>>)>>
SpaceGrid == <<Dim("x", <<IntV(1), IntV(2)>>), Dim("y", <<StrV("a"), StrV("b")>>)>>
SpaceSingle == <<Dim("x", <<IntV(7)>>), Dim("y", <<StrV("a")>>)>>
SpaceEmptyDim == <<Dim("x", <<IntV(1), IntV(2)>>), Dim("y", <<>>)>>
SpaceDup == <<Dim("x", <<IntV(1), IntV(2), IntV(1)>>)>>
SpaceStrDup == <<Dim("x", <<IntV(1), StrV("1")>>)>>
SpaceCross == <<Dim("a", <<StrV("b_1"), StrV("c")>>), Dim("a_b", <<IntV(0), IntV(1)>>)>>

Spaces == {SpaceLine, SpaceGrid, SpaceSingle, SpaceEmptyDim, SpaceDup, SpaceStrDup, SpaceCross}

MaxEvalsChoices == {-1, 0, 1, MaxEvals}

Names(sp) == {sp[j].name : j \in DOMAIN sp}
\* self.space[hp]
SpaceGet(sp, hp) == sp[CHOOSE j \in DOMAIN sp : sp[j].name = hp].vals

\* ------------------------------------------------------ help_neigh_struct
EmptyDict == [kk \in {} |-> 0]
\* Dict[key] = val
DictSet(D, key, val) == [kk \in DOMAIN D \cup {key} |-> IF kk = key THEN val ELSE D[kk]]

\* key = hyper_param + "_" + str(l)
NeighKey(hp, l) == hp \o "_" \o Str(l)

\* for i,l in enumerate(self.space[hyper_param]), from the 1-based position p
RECURSIVE EnumerateValues(_, _, _, _)
EnumerateValues(D, hp, vals, p) ==
  IF p > Len(vals) THEN D
  ELSE EnumerateValues(DictSet(D, NeighKey(hp, vals[p]), p - 1), hp, vals, p + 1)

\* for hyper_param in self.space, from the dimension j
RECURSIVE EnumerateDims(_, _, _)
EnumerateDims(D, sp, j) ==
  IF j > Len(sp) THEN D
  ELSE EnumerateDims(EnumerateValues(D, sp[j].name, sp[j].vals, 1), sp, j + 1)

help_neigh_struct(sp) == EnumerateDims(EmptyDict, sp, 1)

\* ------------------------------ random_pick_from_neighbourhood_structure
Steps == {-1, 0, 1}
\* one np.random.randint(-1,2) per key of the dict
StepChoices(names) == [names -> Steps]

\* (hp_index+idx+length)%length
NewIndex(hp_index, idx, length) == (hp_index + idx + length) % length

\* the pick reading the value list of the first dimension for every dimension
random_pick_WrongDimension(ND, sp, initial_choice, idx) ==
  [hp \in DOMAIN initial_choice |->
     LET key == NeighKey(hp, initial_choice[hp])
         hp_index == ND[key]
         length == Len(sp[1].vals)
     IN sp[1].vals[NewIndex(hp_index, idx[hp], length) + 1]]

random_pick_from_neighbourhood_structure(ND, sp, initial_choice, idx) ==
  [hp \in DOMAIN initial_choice |->
     LET key == NeighKey(hp, initial_choice[hp])
         hp_index == ND[key]
         length == Len(SpaceGet(sp, hp))
     IN SpaceGet(sp, hp)[NewIndex(hp_index, idx[hp], length) + 1]]

\* --------------------------------------------------------------------- Mf
\* the logarithm with the exact powers of 5 rounded down one too far
RECURSIVE Log5_Boundary(_)
Log5_Boundary(n) == IF n <= 5 THEN 0 ELSE 1 + Log5_Boundary(n \div 5)
\* int(log(k+10)/log(5)): how often 5 divides into k+10 before it drops below 5
RECURSIVE Log5(_)
Log5(n) == IF n < 5 THEN 0 ELSE 1 + Log5(n \div 5)

\* the budget without the offset of 10
Mf_NoOffset(kk) == Log5(kk)
Mf(kk) == Log5(kk + 10)

\* ------------------------------------------------------------------ state
VARIABLES
  pc,          \* "new", "constructed", "while", "for", "after_for", "returned", "raised"
  space,       \* self.space
  maxevals,    \* self.maxevals
  Neigh_dict,  \* self.Neigh_dict
  k, x_k, zk, iter, i, h_of_z, u, minh_of_z, opt_x,   \* the locals of SR_Algo
  result,      \* the tuple SR_Algo returned
  exc,         \* the exception that left SR_Algo
  idx_zk,      \* the randint draws of the pick of line 143 in this pass
  scored,      \* the dict handed to ModelFunc by the last call of run
  perturbs,    \* calls of random_pick_from_neighbourhood_structure in this pass
  samples,     \* evaluator samples returned in this pass
  branch,      \* the branches of lines 151 and 158 taken in this pass
  anyPerturb,  \* random_pick_from_neighbourhood_structure was ever called
  anyEval,     \* ModelFunc was ever called
  bestDecided  \* the least sample that ended an iteration so far

vars == <<pc, space, maxevals, Neigh_dict, k, x_k, zk, iter, i, h_of_z, u,
          minh_of_z, opt_x, result, exc, idx_zk, scored, perturbs, samples,
          branch, anyPerturb, anyEval, bestDecided>>

algoLocals == <<k, x_k, zk, iter, i, h_of_z, u, minh_of_z, opt_x>>
ghosts == <<idx_zk, scored, perturbs, samples, branch, anyPerturb, anyEval, bestDecided>>

\* a local that is not bound yet
Unbound == -1
\* opt_x = []
EmptyList == <<>>
NoExc == [type |-> "", args |-> <<>>]
\* what the evaluator's own code raises: ModelFunc on a missing key or an
\* unknown model_type, the sklearn calls on a bad hyperparameter
EvaluatorErrors == {"KeyError", "UnboundLocalError", "ValueError"}

Samples == 0..Scale
Rulers == 0..(Scale - 1)

Min(a, b) == IF a < b THEN a ELSE b

\* the loop test off by one
LoopTest_OffByOne(kk, me) == kk <= me + 1
\* while(k<self.maxevals+1)
LoopTest(kk, me) == kk < me + 1
\* the for loop taking one turn more than range(iter)
ForContinues_OffByOne(ii, it) == ii + 1 <= it
\* for i in range(iter): after the turn i another turn follows
ForContinues(ii, it) == ii + 1 < it
\* if(h_of_z>u)
RulerTest(h, r) == h > r
\* the test after the for loop firing whenever sample and ruler differ
ExhaustedTest_NotEqual(h, r) == h # r
\* if(h_of_z<u), after the for loop
ExhaustedTest(h, r) == h < r
\* the comparison with the best score inverted
Improves_Inverted(h, m) == h > m
\* if(h_of_z<minh_of_z)
Improves(h, m) == h < m
\* the success branch recording the candidate
SuccessRecord_Candidate(x, z) == z
\* opt_x = x_k, in the branch of line 151
SuccessRecord(x, z) == x
\* the forced branch recording the point that was current before it
ForcedRecord_Current(x, z) == x
\* opt_x = zk, in the branch of line 158
ForcedRecord(x, z) == z
\* x_k = zk
ForcedCurrent(x, z) == z
\* ModelFunc(self.random_pick_from_neighbourhood_structure(neigh)): what run scores
RunScores(ND, sp, neigh, idx) == random_pick_from_neighbourhood_structure(ND, sp, neigh, idx)

Init ==
  /\ pc = "new"
  /\ space = <<>>
  /\ maxevals = 0
  /\ Neigh_dict = EmptyDict
  /\ k = Unbound /\ iter = Unbound /\ i = Unbound
  /\ h_of_z = Unbound /\ u = Unbound /\ minh_of_z = Unbound
  /\ x_k = <<>> /\ zk = <<>> /\ opt_x = <<>>
  /\ result = <<>>
  /\ exc = NoExc
  /\ idx_zk = <<>> /\ scored = <<>>
  /\ perturbs = 0 /\ samples = 0 /\ branch = {}
  /\ anyPerturb = FALSE /\ anyEval = FALSE
  /\ bestDecided = Scale

\* stochastic_ruler(space, model_type, maxevals)
Construct(sp, me) ==
  /\ pc = "new"
  /\ space' = sp
  /\ maxevals' = me
  /\ Neigh_dict' = help_neigh_struct(sp)
  /\ pc' = "constructed"
  /\ UNCHANGED <<algoLocals, result, exc, ghosts>>

\* fit, then SR_Algo up to the loop: lines 131-138
SR_Algo_Start ==
  /\ pc = "constructed"
  /\ IF \E j \in DOMAIN space : Len(space[j].vals) = 0
     THEN \* self.space[i][0] of an empty list
          /\ pc' = "raised"
          /\ exc' = [type |-> "IndexError", args |-> <<>>]
          /\ UNCHANGED algoLocals
     ELSE /\ x_k' = [hp \in Names(space) |-> SpaceGet(space, hp)[1]]
          /\ minh_of_z' = Scale
          /\ opt_x' = EmptyList
          /\ k' = 1
          /\ pc' = "while"
          /\ UNCHANGED <<zk, iter, i, h_of_z, u, exc>>
  /\ UNCHANGED <<space, maxevals, Neigh_dict, result, ghosts>>

\* the loop test succeeds, the candidate is picked, the budget read: lines 140-147
SR_Algo_Candidate ==
  /\ pc = "while"
  /\ LoopTest(k, maxevals)
  /\ \E idx \in StepChoices(DOMAIN x_k) :
       /\ zk' = random_pick_from_neighbourhood_structure(Neigh_dict, space, x_k, idx)
       /\ idx_zk' = idx
  /\ iter' = Mf(k)
  /\ IF Mf(k) > 0 THEN i' = 0 /\ pc' = "for" ELSE i' = i /\ pc' = "after_for"
  /\ perturbs' = 1 /\ samples' = 0 /\ branch' = {} /\ scored' = <<>>
  /\ anyPerturb' = TRUE
  /\ UNCHANGED <<space, maxevals, Neigh_dict, k, x_k, h_of_z, u, minh_of_z, opt_x,
                 result, exc, anyEval, bestDecided>>

\* one turn of the for loop in which run returns: lines 148-156 and 196-213
run_Sample ==
  /\ pc = "for"
  /\ \E idx \in StepChoices(DOMAIN zk) :
       scored' = RunScores(Neigh_dict, space, zk, idx)
  /\ perturbs' = perturbs + 1 /\ samples' = samples + 1
  /\ anyEval' = TRUE
  /\ \E h \in Samples, r \in Rulers :
       /\ h_of_z' = h
       /\ u' = r
       /\ IF RulerTest(h, r)
          THEN /\ k' = k + 1
               /\ IF Improves(h, minh_of_z)
                  THEN minh_of_z' = h /\ opt_x' = SuccessRecord(x_k, zk)
                  ELSE UNCHANGED <<minh_of_z, opt_x>>
               /\ i' = i
               /\ pc' = "after_for"
               /\ branch' = branch \cup {"success"}
               /\ bestDecided' = Min(bestDecided, h)
          ELSE /\ IF ForContinues(i, iter)
                  THEN i' = i + 1 /\ pc' = "for"
                  ELSE i' = i /\ pc' = "after_for"
               /\ UNCHANGED <<k, minh_of_z, opt_x, branch, bestDecided>>
  /\ UNCHANGED <<space, maxevals, Neigh_dict, x_k, zk, iter, result, exc,
                 idx_zk, anyPerturb>>

\* one turn of the for loop in which the evaluator raises inside run: nothing
\* in run or SR_Algo catches, the exception leaves SR_Algo as it is
run_Raises ==
  /\ pc = "for"
  /\ \E idx \in StepChoices(DOMAIN zk) :
       scored' = RunScores(Neigh_dict, space, zk, idx)
  /\ perturbs' = perturbs + 1
  /\ anyEval' = TRUE
  /\ \E e \in EvaluatorErrors : exc' = [type |-> e, args |-> <<>>]
  /\ pc' = "raised"
  /\ UNCHANGED <<space, maxevals, Neigh_dict, algoLocals, result,
                 idx_zk, samples, branch, anyPerturb, bestDecided>>

\* the test after the for loop: lines 158-163
SR_Algo_AfterFor ==
  /\ pc = "after_for"
  /\ IF h_of_z = Unbound
     THEN \* h_of_z read before any assignment
          /\ pc' = "raised"
          /\ exc' = [type |-> "UnboundLocalError", args |-> <<>>]
          /\ UNCHANGED <<x_k, k, minh_of_z, opt_x, branch, bestDecided>>
     ELSE /\ pc' = "while"
          /\ exc' = exc
          /\ IF ExhaustedTest(h_of_z, u)
             THEN /\ x_k' = ForcedCurrent(x_k, zk)
                  /\ k' = k + 1
                  /\ IF Improves(h_of_z, minh_of_z)
                     THEN minh_of_z' = h_of_z /\ opt_x' = ForcedRecord(x_k, zk)
                     ELSE UNCHANGED <<minh_of_z, opt_x>>
                  /\ branch' = branch \cup {"forced"}
                  /\ bestDecided' = Min(bestDecided, h_of_z)
             ELSE UNCHANGED <<x_k, k, minh_of_z, opt_x, branch, bestDecided>>
  /\ UNCHANGED <<space, maxevals, Neigh_dict, zk, iter, i, h_of_z, u, result,
                 idx_zk, scored, perturbs, samples, anyPerturb, anyEval>>

\* the loop test fails: lines 140 and 166
SR_Algo_Return ==
  /\ pc = "while"
  /\ ~LoopTest(k, maxevals)
  /\ result' = <<minh_of_z, opt_x>>
  /\ pc' = "returned"
  /\ UNCHANGED <<space, maxevals, Neigh_dict, algoLocals, exc, ghosts>>

Next ==
  \/ \E sp \in Spaces, me \in MaxEvalsChoices : Construct(sp, me)
  \/ SR_Algo_Start
  \/ SR_Algo_Candidate
  \/ run_Sample
  \/ run_Raises
  \/ SR_Algo_AfterFor
  \/ SR_Algo_Return

Spec == Init /\ [][Next]_vars

\* the interpreter keeps running SR_Algo until it returns or raises
FairSpec == Spec /\ WF_vars(Next)

\* ----------------------------------------------------------------- claims
Running == {"while", "for", "after_for", "returned"}
HasEmptyDim(sp) == \E j \in DOMAIN sp : Len(sp[j].vals) = 0
InitialChoice(sp) == [hp \in Names(sp) |-> SpaceGet(sp, hp)[1]]

\* C1: a pass in which no sample strictly exceeded its ruler draw (equality
\* included) ends with the candidate as the new current point and k one higher.
C1_ExhaustionForcesCandidate ==
  [][(pc = "after_for" /\ "success" \notin branch /\ samples = iter)
       => (x_k' = zk /\ k' = k + 1)]_vars

\* C2: every sample compared with the ruler scores the candidate zk of the one
\* pick of the pass: no second neighbour is derived, one pick per candidate.
C2_ScoresTheCandidate ==
  (pc \in {"for", "after_for"} /\ samples > 0) => (scored = zk /\ perturbs = 1)

\* C3: for maxevals >= 1 SR_Algo, once in its loop, eventually returns, with
\* k = maxevals + 1 at the return, whatever samples and ruler draws arrive.
C3_EventuallyReturns ==
  [](pc = "while" /\ maxevals >= 1
       => <>(pc = "raised" \/ (pc = "returned" /\ k = maxevals + 1)))

\* C4: a ruler success keeps the current point, adds exactly one to k, ends the
\* sampling of that candidate, and an improving sample is recorded with the
\* current point, not with the candidate.
C4_SuccessKeepsCurrent ==
  [][/\ (pc = "for" /\ pc' # "raised" /\ h_of_z' > u')
          => /\ x_k' = x_k
             /\ k' = k + 1
             /\ pc' = "after_for"
             /\ IF h_of_z' < minh_of_z
                THEN minh_of_z' = h_of_z' /\ opt_x' = x_k
                ELSE minh_of_z' = minh_of_z /\ opt_x' = opt_x
     /\ (pc = "after_for" /\ "success" \in branch)
          => /\ pc' = "while"
             /\ samples' = samples
             /\ <<x_k', k', minh_of_z', opt_x'>> = <<x_k, k, minh_of_z, opt_x>>
    ]_vars

\* a first-iteration success that improved on the initial score, with a
\* candidate different from the current point
C4_Witness ==
  /\ pc = "after_for" /\ branch = {"success"}
  /\ k = 2 /\ minh_of_z < Scale /\ minh_of_z = h_of_z
  /\ opt_x = x_k /\ zk # x_k

\* C5: with maxevals <= 0 SR_Algo goes from its initialisation straight to the
\* return of (1, []), with no pick and no evaluator call; it raises only where
\* the space has a dimension without values (line 133).
C5_NonPositiveMaxevals ==
  [][maxevals' <= 0
       => /\ ~anyPerturb' /\ ~anyEval'
          /\ pc = "while" => (pc' = "returned" /\ result' = <<Scale, EmptyList>>)
          /\ pc' = "raised" => HasEmptyDim(space')
    ]_vars

C5_Witness == pc = "returned" /\ maxevals = 0 /\ result = <<Scale, <<>>>>

\* the values a dimension of the space allows
Allowed(sp, hp) == {SpaceGet(sp, hp)[p] : p \in 1..Len(SpaceGet(sp, hp))}
AllValues(sp) == UNION {Allowed(sp, hp) : hp \in Names(sp)}
\* c is a configuration of the space: its dimensions, one allowed value in each
IsConfig(sp, c) == DOMAIN c = Names(sp) /\ \A hp \in Names(sp) : c[hp] \in Allowed(sp, hp)
Configs(sp) == {c \in [Names(sp) -> AllValues(sp)] : IsConfig(sp, c)}

\* C6: the pick maps every configuration of the space, under every choice of
\* steps, to a configuration of the space (same dimensions, an allowed value in
\* each, the computed index inside the list); so x_k and zk always are
\* configurations of the space.
C6_NeighbourValidity ==
  /\ pc = "constructed" =>
       \A c \in Configs(space), idx \in StepChoices(Names(space)) :
         /\ IsConfig(space, random_pick_from_neighbourhood_structure(Neigh_dict, space, c, idx))
         /\ \A hp \in Names(space) :
              NewIndex(Neigh_dict[NeighKey(hp, c[hp])], idx[hp], Len(SpaceGet(space, hp)))
                \in 0..(Len(SpaceGet(space, hp)) - 1)
  /\ pc \in Running => IsConfig(space, x_k)
  /\ pc \in {"for", "after_for"} => IsConfig(space, zk)
  /\ zk # <<>> => IsConfig(space, zk)

\* a candidate that differs from a current point that is not the initial one
C6_Witness ==
  pc = "after_for" /\ x_k # InitialChoice(space) /\ zk # x_k /\ idx_zk # [hp \in Names(space) |-> 0]

\* two values of one dimension with the same index key, or a dimension without values
InvalidSpace(sp) ==
  \/ HasEmptyDim(sp)
  \/ \E j \in DOMAIN sp : \E p, q \in 1..Len(sp[j].vals) :
       p # q /\ NeighKey(sp[j].name, sp[j].vals[p]) = NeighKey(sp[j].name, sp[j].vals[q])

\* no two equal values inside one dimension
NoDuplicateInDim(sp) ==
  \A j \in DOMAIN sp : \A p, q \in 1..Len(sp[j].vals) :
    p # q => sp[j].vals[p] # sp[j].vals[q]
\* the zero-based position of a value in its dimension's list
PositionOf(vals, v) == (CHOOSE p \in 1..Len(vals) : vals[p] = v) - 1

\* C7: in a space without duplicate values inside a dimension (here: not even
\* two values of a dimension that print alike), the candidate's value in
\* dimension d is the one at index (i + s + length(d)) mod length(d), i the
\* position of the current value in d's list, s the step drawn for d.
C7_PerturbationRule ==
  (pc \in {"for", "after_for"} /\ NoDuplicateInDim(space) /\ ~InvalidSpace(space)) =>
    \A hp \in Names(space) :
      LET vals == SpaceGet(space, hp)
          length == Len(vals)
      IN zk[hp] = vals[((PositionOf(vals, x_k[hp]) + idx_zk[hp] + length) % length) + 1]

\* C8: the best score never increases during a run, never exceeds the initial
\* worst value 1, and is at most every sample that ended an iteration (by a
\* ruler success or a forced acceptance); so is the score returned.
C8_BestFoundMonotone ==
  [][pc' \in Running =>
       /\ minh_of_z' <= Scale
       /\ minh_of_z' <= bestDecided'
       /\ pc \in Running => minh_of_z' <= minh_of_z
       /\ pc' = "returned" => (result'[1] <= bestDecided' /\ result'[1] <= Scale)
    ]_vars

\* a run returned after both a success and a forced acceptance lowered the best
C8_Witness ==
  /\ pc = "returned" /\ maxevals = MaxEvals
  /\ bestDecided = 0 /\ result[1] = 0 /\ x_k # InitialChoice(space)

\* C9: a space with a dimension without values, or with two values of one
\* dimension under the same index key, is rejected by the constructor with an
\* InvalidSearchSpace error: no search object exists for it.
C9_InvalidSpaceRejected ==
  (pc # "new" /\ InvalidSpace(space)) =>
    (pc = "raised" /\ exc.type = "InvalidSearchSpace" /\ Neigh_dict = EmptyDict /\ k = Unbound)

\* C10: an evaluator failure aborts the run at that call, without a result, and
\* leaves SR_Algo as an EvaluatorFailure carrying the failing configuration and k.
C10_EvaluatorFailureSurfaced ==
  (pc = "raised" /\ anyEval) =>
    /\ result = <<>>
    /\ exc.type = "EvaluatorFailure"
    /\ exc.args \in {<<zk, k>>, <<scored, k>>}

\* C12: for every k in 1..50 the budget Mf(k) is the largest m with
\* 5^m <= k + 10, and Mf never decreases as k grows; the budget a pass reads
\* is that number for its k.
C12_BudgetIsFloorLog5 ==
  /\ pc = "constructed" =>
       /\ \A kk \in 1..50 : 5^Mf(kk) <= kk + 10 /\ kk + 10 < 5^(Mf(kk) + 1)
       /\ \A kk \in 1..49 : Mf(kk) <= Mf(kk + 1)
  /\ pc = "for" => (5^iter <= k + 10 /\ k + 10 < 5^(iter + 1))

\* the first pass whose budget is 2: k + 10 = 25
C12_Witness == pc = "for" /\ k = 15 /\ iter = 2 /\ samples = 1

\* C13 as stated: the budget of the first iteration is zero.
C13_FirstBudgetZero == (pc = "for" /\ k = 1) => (Mf(1) = 0 /\ iter = 0)

\* C13 as amended: the budget of the first iteration is one, Mf(1) = 1
\* (5 <= 11 < 25), so the first pass draws exactly one sample.
C13_FirstBudgetOne ==
  /\ Mf(1) = 1
  /\ (pc \in {"for", "after_for"} /\ k = 1 /\ branch = {}) => iter = 1
  /\ (pc = "after_for" /\ iter = 1) => samples = 1

C13_Witness == pc = "after_for" /\ k = 1 /\ branch = {} /\ iter = 1 /\ samples = 1

\* every dimension of the space has exactly one allowed value
AllSingle(sp) == \A j \in DOMAIN sp : Len(sp[j].vals) = 1

\* C14: in a space whose dimensions have one value each, the pick returns its
\* input under every choice of steps; the current point and every candidate
\* are the initial configuration, and so is opt_x once it is not empty.
C14_SingleValueSpaceIsFixed ==
  (pc # "new" /\ AllSingle(space)) =>
    /\ \A c \in Configs(space), idx \in StepChoices(Names(space)) :
         random_pick_from_neighbourhood_structure(Neigh_dict, space, c, idx) = c
    /\ pc \in Running => x_k = InitialChoice(space)
    /\ zk # <<>> => zk = InitialChoice(space)
    /\ opt_x # <<>> => opt_x = InitialChoice(space)
    /\ pc = "returned" => result[2] \in {EmptyList, InitialChoice(space)}

\* a full run in the one-point space that went through a forced acceptance
\* and returned a recorded point
C14_Witness ==
  /\ pc = "returned" /\ AllSingle(space) /\ maxevals = MaxEvals
  /\ "forced" \in branch /\ result[2] = InitialChoice(space)

\* C15: in a space whose dimensions are non-empty and free of duplicates (not
\* even two values of a dimension that print alike), the index maps the key of
\* every (dimension, value) pair to the zero-based position of the value in
\* its own dimension's list, so no two pairs share an entry.
C15_IndexIsPosition ==
  (pc = "constructed" /\ NoDuplicateInDim(space) /\ ~InvalidSpace(space)) =>
    \A j \in DOMAIN space : \A p \in 1..Len(space[j].vals) :
      Neigh_dict[NeighKey(space[j].name, space[j].vals[p])] = p - 1

\* C16: a pass reads the budget Mf(k) for the k it starts with, which is at
\* least 1; it draws between 1 and Mf(k) samples, all for its one candidate,
\* each together with a ruler draw; so the test after the for loop reads a
\* sample and a ruler drawn in its own pass.
C16_SamplesWithinBudget ==
  [][/\ (pc = "while" /\ pc' # "returned")
          => (pc' = "for" /\ iter' = Mf(k) /\ iter' >= 1 /\ samples' = 0 /\ k' = k)
     /\ pc' = "for" => (samples' < iter' /\ iter' = Mf(k'))
     /\ pc' = "after_for" => (1 <= samples' /\ samples' <= iter')
     /\ (pc = "for" /\ pc' # "raised")
          => /\ samples' = samples + 1
             /\ zk' = zk /\ iter' = iter
             /\ h_of_z' \in Samples /\ u' \in Rulers
     /\ pc = "after_for"
          => (samples >= 1 /\ h_of_z # Unbound /\ u # Unbound /\ zk' = zk)
    ]_vars

\* a pass with budget 2 that used both samples without a success
C16_Witness ==
  pc = "after_for" /\ iter = 2 /\ samples = 2 /\ branch = {} /\ k = MaxEvals

\* C17: opt_x is empty exactly while minh_of_z still is the initial 1;
\* otherwise it is a configuration of the space: the current point of the
\* moment, when a ruler success lowered the best score, the force-accepted
\* candidate, when a forced acceptance did.
C17_BestPointBookkeeping ==
  [][pc' \in Running =>
       /\ (opt_x' = EmptyList) <=> (minh_of_z' = Scale)
       /\ opt_x' # EmptyList => IsConfig(space', opt_x')
       /\ (pc \in Running /\ minh_of_z' # minh_of_z) =>
            \/ pc = "for" /\ "success" \in branch' /\ opt_x' = x_k /\ x_k' = x_k
            \/ pc = "after_for" /\ "forced" \in branch' /\ opt_x' = zk /\ x_k' = zk
       /\ (pc \in Running /\ minh_of_z' = minh_of_z) => opt_x' = opt_x
    ]_vars

\* a forced acceptance just lowered the best score and recorded a candidate
\* that differs from the point it replaced
C17_Witness ==
  /\ pc = "while" /\ branch = {"forced"}
  /\ minh_of_z = h_of_z /\ minh_of_z < Scale /\ k = 2
  /\ opt_x = zk /\ zk # InitialChoice(space)

\* C18: a pass never takes both the success branch and the forced branch; k
\* changes only by +1 and only together with one of the two; with
\* maxevals >= 0, k stays within 1..maxevals+1; the current point changes only
\* in the forced branch, where it becomes the candidate of the pass.
C18_OneBranchPerPass ==
  [][pc' \in Running =>
       /\ Cardinality(branch') <= 1
       /\ maxevals' >= 0 => (1 <= k' /\ k' <= maxevals' + 1)
       /\ (pc \in Running /\ k' # k) =>
            (k' = k + 1 /\ branch = {} /\ Cardinality(branch') = 1)
       /\ (pc \in Running /\ x_k' # x_k) =>
            (pc = "after_for" /\ branch' = {"forced"} /\ x_k' = zk)
       /\ (pc \in Running /\ branch' = {"forced"} /\ branch = {}) => x_k' = zk
    ]_vars

\* the last pass of a full run ended by a forced acceptance that moved the point
C18_Witness ==
  /\ pc = "returned" /\ maxevals = MaxEvals /\ k = MaxEvals + 1
  /\ branch = {"forced"} /\ x_k = zk /\ x_k # InitialChoice(space)

====
